---- MODULE Spec2Model ----
(***************************************************************************)
(* jquery-loading (dist/jquery.loading.js): the Loading widget, the        *)
(* $.fn.loading dispatcher and the :loading selector.                      *)
(*                                                                         *)
(* The document holds two elements, <body> and a <div> inside it, so that  *)
(* an event triggered on the div bubbles to the body.  The jQuery calls    *)
(* the plugin makes are modelled by what jQuery 1.8 - 2.x does:            *)
(*   - trigger('loading.ns', data) runs, on the element and then on each   *)
(*     ancestor, the handlers bound for event 'loading' with namespace ns, *)
(*     in binding order, passing data as the second argument;              *)
(*   - fadeIn/fadeOut go through the element's fx queue: an animation      *)
(*     starts at once when the queue is idle, else when the ones before it *)
(*     have finished; a fadeIn that starts on a hidden element displays it *)
(*     when it starts, a fadeOut hides the element when it finishes, and a *)
(*     fadeIn of a displayed (fadeOut of a hidden) element animates        *)
(*     nothing and finishes in the call that starts it;                    *)
(*   - is(':visible') is true of an overlay that is displayed: the overlay *)
(*     is in the body and has a layout box while its display is not none.  *)
(***************************************************************************)
EXTENDS Integers, Sequences, FiniteSets, TLC

VARIABLES
  data,       \* data[e]: TRUE when $.data(e, 'jquery-loading') holds a Loading
  settings,   \* settings[e]: this.settings of e's Loading object
  overlay,    \* overlay[e]: this.overlay of e's Loading object
  handlers,   \* handlers[e][ns]: handlers bound on e for 'loading.<ns>'
  nodes,      \* nodes[e]: overlay nodes created for e and prepended to body
  defaults,   \* Loading.defaults
  box,        \* box[e]: the offset and outer size of e in the page
  external,   \* external[e][ev]: handlers e's Loading bound on window / document
  ready,      \* TRUE once the document's ready event has fired
  log,        \* calls, notifications and hook runs of the last operation
  last        \* the last operation

vars ==
  <<data, settings, overlay, handlers, nodes, defaults, box, external, ready,
    log, last>>

\* ------------------------------------------------------------ bounds

MaxQueue == 2      \* longest fx queue of an overlay
MaxNodes == 2      \* most overlay nodes created for one element
MaxHandlers == 2   \* most handlers bound for one 'loading.<ns>' on an element

\* ------------------------------------------------------------ the document

Elems == {"body", "div"}

\* The path an event triggered on e bubbles along (jQuery.event.trigger).
BubblePath(e) == IF e = "body" THEN <<"body">> ELSE <<e, "body">>

Namespaces == {"start", "stop", "click"}

\* ------------------------------------------------------------ configuration

Empty == [k \in {} |-> FALSE]

\* $.extend({}, a, b): b's keys take b's values, a's other keys keep theirs.
Extend(a, b) ==
  [k \in (DOMAIN a) \cup (DOMAIN b) |-> IF k \in DOMAIN b THEN b[k] ELSE a[k]]

\* The hooks: the default onStart, onStop and onClick, and a hook of the
\* user's that only observes its argument.
FadeInHook == "fadeIn"
FadeOutHook == "fadeOut"
NoopHook == "noop"
UserHook == "user"

InitialDefaults ==
  [message |-> "Loading...", theme |-> "light", stoppable |-> FALSE,
   onStart |-> FadeInHook, onStop |-> FadeOutHook, onClick |-> NoopHook]

UserHooks == [onStart |-> UserHook, onStop |-> UserHook, onClick |-> UserHook]

\* The configuration objects callers pass for element e.  Empty stands for {}
\* and for a call with no argument (options undefined): $.extend skips
\* undefined.  The body is given its hooks only, to keep the state space small.
Configs(e) ==
  IF e = "body" THEN { Empty, UserHooks }
  ELSE { Empty, [start |-> FALSE], [stoppable |-> TRUE], UserHooks }

\* The objects passed to the options method of e's Loading object.
OptionArgs(e) ==
  IF e = "body" THEN { UserHooks }
  ELSE { [stoppable |-> TRUE], [stoppable |-> FALSE], UserHooks,
         [onStart |-> FadeInHook, onStop |-> FadeOutHook, onClick |-> NoopHook] }

\* The objects passed to setDefaults.
DefaultConfigs ==
  { [stoppable |-> TRUE], [stoppable |-> FALSE], [message |-> "Wait..."] }

\* ------------------------------------------------------------ the log

\* What handlers receive as second argument: a Loading object, or the
\* overlay's DOM node.
LoadingObject(e) == [type |-> "Loading", of |-> e]
OverlayNode(e) == [type |-> "Overlay", of |-> e]

Call(name, e) ==
  [kind |-> "call", name |-> name, on |-> e, target |-> e,
   payload |-> LoadingObject(e), hook |-> ""]
Notify(ns, e, payload) ==
  [kind |-> "notify", name |-> ns, on |-> e, target |-> e, payload |-> payload,
   hook |-> ""]
\* hook: the function that ran, the value of settings[key] at that moment.
HookRun(key, owner, target, payload, h) ==
  [kind |-> "hook", name |-> key, on |-> owner, target |-> target,
   payload |-> payload, hook |-> h]

Logged(w, entry) == [w EXCEPT !.log = Append(@, entry)]

\* ------------------------------------------------------------ the fx queue

\* jQuery.dequeue on an fx queue: start the next animation.  "in" on a hidden
\* element displays it and animates; "out" on a displayed element animates
\* (and hides when it finishes); the other two animate nothing, finish at
\* once and start the one after.
RECURSIVE Dequeue(_, _)
Dequeue(display, queue) ==
  IF queue = <<>> THEN [display |-> display, fx |-> <<>>]
  ELSE IF Head(queue) = "in"
       THEN IF display THEN Dequeue(display, Tail(queue))
            ELSE [display |-> TRUE, fx |-> queue]
       ELSE IF display THEN [display |-> display, fx |-> queue]
            ELSE Dequeue(display, Tail(queue))

\* Mutant of Animate: an animation asked for while another runs is dropped.
AnimateUnlessBusy(ov, kind) ==
  IF ov.fx # <<>> THEN ov
  ELSE LET r == Dequeue(ov.display, <<kind>>)
       IN [ov EXCEPT !.display = r.display, !.fx = r.fx]

\* .animate(): queue the animation, and start it if the queue is idle.
Animate(ov, kind) ==
  IF ov.fx # <<>> THEN [ov EXCEPT !.fx = Append(@, kind)]
  ELSE LET r == Dequeue(ov.display, <<kind>>)
       IN [ov EXCEPT !.display = r.display, !.fx = r.fx]

\* Mutant of FadeIn: the default onStart fades the overlay out.
FadeInAsFadeOut(ov) == Animate(ov, "out")

\* Mutant of FadeIn: the default onStart is a fadeToggle.
FadeInAsFadeToggle(ov) == Animate(ov, IF ov.display THEN "out" ELSE "in")

\* loading.overlay.fadeIn(150) and loading.overlay.fadeOut(150)
FadeIn(ov) == Animate(ov, "in")
FadeOut(ov) == Animate(ov, "out")

\* The running animation of the overlay finishes (150 ms after it started).
Finish(ov) ==
  LET shown == IF Head(ov.fx) = "out" THEN FALSE ELSE ov.display
      r == Dequeue(shown, Tail(ov.fx))
  IN [ov EXCEPT !.display = r.display, !.fx = r.fx]

\* The overlay once every queued animation has run and finished.
RECURSIVE Settle(_)
Settle(ov) == IF ov.fx = <<>> THEN ov ELSE Settle(Finish(ov))

\* ------------------------------------------------------------ hooks, events

HookKey(ns) ==
  CASE ns = "start" -> "onStart" [] ns = "stop" -> "onStop" [] OTHER -> "onClick"

\* self.settings.<key>(loading), self the Loading object of element x.
RunHook(w, x, key, target, payload) ==
  LET h == w.settings[x][key]
      w1 == Logged(w, HookRun(key, x, target, payload, h))
  IN CASE h = FadeInHook -> [w1 EXCEPT !.overlay[payload.of] = FadeIn(@)]
       [] h = FadeOutHook -> [w1 EXCEPT !.overlay[payload.of] = FadeOut(@)]
       [] OTHER -> w1

\* The n handlers attachOptionsHandlers bound on x for 'loading.<ns>'.
RECURSIVE RunHandlers(_, _, _, _, _, _)
RunHandlers(w, x, ns, target, payload, n) ==
  IF n = 0 THEN w
  ELSE RunHandlers(RunHook(w, x, HookKey(ns), target, payload),
                   x, ns, target, payload, n - 1)

RECURSIVE Bubble(_, _, _, _, _)
Bubble(w, path, ns, target, payload) ==
  IF path = <<>> THEN w
  ELSE Bubble(RunHandlers(w, Head(path), ns, target, payload,
                          w.handlers[Head(path)][ns]),
              Tail(path), ns, target, payload)

\* this.element.trigger('loading.<ns>', payload)
Trigger(w, e, ns, payload) ==
  Bubble(Logged(w, Notify(ns, e, payload)), BubblePath(e), ns, e, payload)

\* ------------------------------------------------------------ Loading.prototype

\* resize: the css the overlay gets from the element's offset and outer size.
Px(n) == <<"px", n>>
FullSize == <<"%", 100>>
OverlayCss(e, fullPage) ==
  [top |-> box[e].top, left |-> box[e].left,
   width |-> IF fullPage THEN FullSize ELSE Px(box[e].width),
   height |-> IF fullPage THEN FullSize ELSE Px(box[e].height)]

\* Mutant of resize: the fullPage setting is not looked at.
resizeIgnoringFullPage(w, e) ==
  [Logged(w, Call("resize", e)) EXCEPT !.overlay[e].css = OverlayCss(e, FALSE)]

resize(w, e) ==
  [Logged(w, Call("resize", e))
     EXCEPT !.overlay[e].css = OverlayCss(e, w.settings[e].fullPage)]

start(w, e) == Trigger(Logged(w, Call("start", e)), e, "start", LoadingObject(e))

stop(w, e) == Trigger(Logged(w, Call("stop", e)), e, "stop", LoadingObject(e))

active(w, e) == w.overlay[e].display

\* Mutant of toggle: the test is inverted.
toggleInverted(w, e) ==
  LET w1 == Logged(Logged(w, Call("toggle", e)), Call("active", e))
  IN IF active(w1, e) THEN start(w1, e) ELSE stop(w1, e)

toggle(w, e) ==
  LET w1 == Logged(Logged(w, Call("toggle", e)), Call("active", e))
  IN IF active(w1, e) THEN stop(w1, e) ELSE start(w1, e)

\* Mutant of options: the argument replaces the settings.
optionsReplace(w, e, opts) ==
  [Logged(w, Call("options", e)) EXCEPT !.settings[e] = opts]

options(w, e, opts) ==
  [Logged(w, Call("options", e))
     EXCEPT !.settings[e] = Extend(w.settings[e], opts)]

\* The overlay before construction: no node.
NoOverlay ==
  [display |-> FALSE, fx |-> <<>>, click |-> <<>>,
   css |-> [top |-> 0, left |-> 0, width |-> Px(0), height |-> Px(0)]]

\* initOverlay: a new hidden node, prepended to body and made this.overlay,
\* then resize().
initOverlay(w, e) ==
  LET w1 == Logged(w, Call("initOverlay", e))
      w2 == [w1 EXCEPT !.overlay[e] = NoOverlay, !.nodes[e] = @ + 1]
  IN resize(w2, e)

ExternalEvents == {"resize", "ready"}

\* attachMethodsToExternalEvents: the overlay's click handlers, in binding
\* order: the stop handler when settings.stoppable is set, then the one that
\* triggers 'loading.click'; and one more handler of the instance on the
\* window's resize and on the document's ready.
attachMethodsToExternalEvents(w, e) ==
  LET w1 == Logged(w, Call("attachMethodsToExternalEvents", e))
      bound == (IF w.settings[e].stoppable THEN <<"stop">> ELSE <<>>)
                 \o <<"notify">>
  IN [w1 EXCEPT !.overlay[e].click = @ \o bound,
                !.external[e] = [ev \in ExternalEvents |-> @[ev] + 1]]

\* Mutant of attachOptionsHandlers: each handler is bound twice.
attachOptionsHandlersTwice(w, e) ==
  [Logged(w, Call("attachOptionsHandlers", e))
     EXCEPT !.handlers[e] = [ns \in Namespaces |-> @[ns] + 2]]

\* attachOptionsHandlers: one more handler on the element for each of
\* 'loading.start', 'loading.stop' and 'loading.click'.
attachOptionsHandlers(w, e) ==
  [Logged(w, Call("attachOptionsHandlers", e))
     EXCEPT !.handlers[e] = [ns \in Namespaces |-> @[ns] + 1]]

init(w, e) ==
  attachOptionsHandlers(
    attachMethodsToExternalEvents(
      initOverlay(Logged(w, Call("init", e)), e), e), e)

\* Mutant of Loading: the settings start from the defaults the plugin shipped.
LoadingFromInitialDefaults(w, e, opts) ==
  LET s == Extend(Extend(InitialDefaults, opts), [fullPage |-> (e = "body")])
  IN init([w EXCEPT !.settings[e] = s, !.data[e] = TRUE], e)

\* new Loading($(this), options)
Loading(w, e, opts) ==
  LET s == Extend(Extend(defaults, opts), [fullPage |-> (e = "body")])
  IN init([w EXCEPT !.settings[e] = s, !.data[e] = TRUE], e)

\* A click on the overlay of e: its click handlers run in binding order.
RECURSIVE RunClick(_, _, _)
RunClick(w, e, hs) ==
  IF hs = <<>> THEN w
  ELSE LET w1 == IF Head(hs) = "stop" THEN stop(w, e)
                 ELSE Trigger(w, e, "click", OverlayNode(e))
       IN RunClick(w1, e, Tail(hs))

\* Mutant of SelectorLoading: every element with an instance matches.
SelectorAnyInstance(w, e) == w.data[e]

\* The handlers the instances bound on the window's resize (ev = "resize") or
\* the document's ready (ev = "ready"): each calls self.resize().  The
\* instances' handlers touch different overlays, so their order is immaterial.
RECURSIVE RunResizes(_, _, _)
RunResizes(w, e, n) == IF n = 0 THEN w ELSE RunResizes(resize(w, e), e, n - 1)

RunExternal(w, ev) ==
  LET w1 == RunResizes(w, "body", w.external["body"][ev])
  IN RunResizes(w1, "div", w1.external["div"][ev])

\* $.expr[':'].loading
SelectorLoading(w, e) == IF ~w.data[e] THEN FALSE ELSE active(w, e)

\* ------------------------------------------------------------ $.fn.loading

\* The functions of Loading.prototype the documentation offers, and the
\* others, which loading[options] finds as well.
PublicMethods == {"start", "stop", "active", "toggle", "options", "resize"}
InternalMethods ==
  {"init", "initOverlay", "attachMethodsToExternalEvents",
   "attachOptionsHandlers"}

\* Strings that name no function of a Loading object: an absent property,
\* and a property that is not a function.
UnknownNames == {"destroy", "settings"}

\* Mutant of Apply: a name that is no function falls back to start().
ApplyOrStart(w, e, name, arg) ==
  CASE name = "stop" -> stop(w, e)
    [] name = "active" -> Logged(w, Call("active", e))
    [] name = "toggle" -> toggle(w, e)
    [] name = "options" -> options(w, e, arg)
    [] name = "resize" -> resize(w, e)
    [] name = "init" -> init(w, e)
    [] name = "initOverlay" -> initOverlay(w, e)
    [] name = "attachMethodsToExternalEvents" ->
         attachMethodsToExternalEvents(w, e)
    [] name = "attachOptionsHandlers" -> attachOptionsHandlers(w, e)
    [] OTHER -> start(w, e)

\* loading[name].apply(loading, otherArgs); a name that is no function of
\* the object makes the call throw a TypeError.
Apply(w, e, name, arg) ==
  CASE name = "start" -> start(w, e)
    [] name = "stop" -> stop(w, e)
    [] name = "active" -> Logged(w, Call("active", e))
    [] name = "toggle" -> toggle(w, e)
    [] name = "options" -> options(w, e, arg)
    [] name = "resize" -> resize(w, e)
    [] name = "init" -> init(w, e)
    [] name = "initOverlay" -> initOverlay(w, e)
    [] name = "attachMethodsToExternalEvents" ->
         attachMethodsToExternalEvents(w, e)
    [] name = "attachOptionsHandlers" -> attachOptionsHandlers(w, e)
    [] OTHER -> [w EXCEPT !.error = TRUE]

\* An object (or no) argument, and a method name with its first other argument.
ObjectArg(cfg) == [string |-> FALSE, name |-> "", config |-> cfg]
StringArg(name, arg) == [string |-> TRUE, name |-> name, config |-> arg]

\* Mutant of fnLoading: no look-up in $.data, every call constructs.
fnLoadingAlwaysNew(w, e, a) ==
  LET w1 == Loading(w, e, IF a.string THEN Empty ELSE a.config)
  IN IF a.string THEN Apply(w1, e, a.name, a.config) ELSE start(w1, e)

\* Mutant of fnLoading: the start request is not in an else branch.
fnLoadingAlwaysStart(w, e, a) ==
  LET w1 == IF ~w.data[e]
            THEN Loading(w, e, IF a.string THEN Empty ELSE a.config)
            ELSE w
  IN start(IF a.string THEN Apply(w1, e, a.name, a.config) ELSE w1, e)

\* The body of this.each in $.fn.loading, for the element e.  A string's
\* own properties are its indices, so $.extend copies no option from it.
fnLoading(w, e, a) ==
  LET w1 == IF ~w.data[e]
            THEN Loading(w, e, IF a.string THEN Empty ELSE a.config)
            ELSE w
  IN IF a.string THEN Apply(w1, e, a.name, a.config) ELSE start(w1, e)

\* ------------------------------------------------------------ the state machine

World ==
  [data |-> data, settings |-> settings, overlay |-> overlay,
   handlers |-> handlers, nodes |-> nodes, external |-> external,
   log |-> <<>>, error |-> FALSE]

WithinBounds(w) ==
  \A e \in Elems :
    /\ Len(w.overlay[e].fx) <= MaxQueue
    /\ w.nodes[e] <= MaxNodes
    /\ \A ns \in Namespaces : w.handlers[e][ns] <= MaxHandlers
    /\ Len(w.overlay[e].click) <= MaxHandlers + 1
    /\ \A ev \in ExternalEvents : w.external[e][ev] <= MaxHandlers

Commit(w, l) ==
  /\ WithinBounds(w)
  /\ data' = w.data
  /\ settings' = w.settings
  /\ overlay' = w.overlay
  /\ handlers' = w.handlers
  /\ nodes' = w.nodes
  /\ external' = w.external
  /\ log' = w.log
  /\ last' = l
  /\ UNCHANGED <<defaults, box, ready>>

Op(op, e, a, result) ==
  [op |-> op, el |-> e, string |-> a.string, name |-> a.name,
   config |-> a.config, fresh |-> ~data[e], wasActive |-> overlay[e].display,
   result |-> result]

Init ==
  /\ data = [e \in Elems |-> FALSE]
  /\ settings = [e \in Elems |-> Empty]
  /\ overlay = [e \in Elems |-> NoOverlay]
  /\ handlers = [e \in Elems |-> [ns \in Namespaces |-> 0]]
  /\ nodes = [e \in Elems |-> 0]
  /\ defaults = InitialDefaults
  /\ box = [e \in Elems |->
              IF e = "body"
              THEN [top |-> 0, left |-> 0, width |-> 8, height |-> 6]
              ELSE [top |-> 1, left |-> 2, width |-> 3, height |-> 4]]
  /\ external = [e \in Elems |-> [ev \in ExternalEvents |-> 0]]
  /\ ready = FALSE
  /\ log = <<>>
  /\ last = Op("none", "body", ObjectArg(Empty), FALSE)

\* $(e).loading(cfg) and $(e).loading()
LoadingConfig(e, cfg) ==
  Commit(fnLoading(World, e, ObjectArg(cfg)),
         Op("loading", e, ObjectArg(cfg), FALSE))

\* $(e).loading(name) and $(e).loading('options', arg), name a documented method
LoadingMethod(e, name, arg) ==
  /\ IF name = "options" THEN arg \in OptionArgs(e) ELSE arg = Empty
  /\ Commit(fnLoading(World, e, StringArg(name, arg)),
            Op("loading", e, StringArg(name, arg), FALSE))

\* $(e).loading(name), name no function of the Loading object: the call throws.
LoadingUnknown(e, name) ==
  LET w == fnLoading(World, e, StringArg(name, Empty))
  IN Commit(w, Op("loading", e, StringArg(name, Empty), w.error))

\* $(e).loading(name), name one of the other functions of the prototype
LoadingInternal(e, name) ==
  Commit(fnLoading(World, e, StringArg(name, Empty)),
         Op("loading", e, StringArg(name, Empty), FALSE))

\* A click event on the overlay of e (the user's, or overlay.trigger('click')).
Click(e) ==
  /\ data[e]
  /\ Commit(RunClick(World, e, overlay[e].click),
            Op("click", e, ObjectArg(Empty), FALSE))

\* The running fade of e's overlay finishes.
FadeDone(e) ==
  /\ overlay[e].fx # <<>>
  /\ Commit([World EXCEPT !.overlay[e] = Finish(@)],
            Op("fadeDone", e, ObjectArg(Empty), FALSE))

\* $(e).is(':loading')
Selector(e) ==
  Commit(World, Op("selector", e, ObjectArg(Empty), SelectorLoading(World, e)))

\* The page's layout changes: e gets another offset or size.
Boxes(e) ==
  IF e = "body"
  THEN { [top |-> 0, left |-> 0, width |-> 8, height |-> 6],
         [top |-> 0, left |-> 0, width |-> 10, height |-> 6] }
  ELSE { [top |-> 1, left |-> 2, width |-> 3, height |-> 4],
         [top |-> 5, left |-> 2, width |-> 3, height |-> 7] }

Layout(e, b) ==
  /\ b # box[e]
  /\ box' = [box EXCEPT ![e] = b]
  /\ log' = <<>>
  /\ last' = Op("layout", e, ObjectArg(Empty), FALSE)
  /\ UNCHANGED <<data, settings, overlay, handlers, nodes, defaults, external,
                 ready>>

\* The window's resize event.
WindowResize ==
  Commit(RunExternal(World, "resize"),
         Op("windowResize", "body", ObjectArg(Empty), FALSE))

\* The document's ready event: jQuery triggers it once and then unbinds its
\* handlers.
DocumentReady ==
  LET w == RunExternal(World, "ready")
  IN /\ ~ready
     /\ ready' = TRUE
     /\ overlay' = w.overlay
     /\ external' = [e \in Elems |-> [w.external[e] EXCEPT !["ready"] = 0]]
     /\ log' = w.log
     /\ last' = Op("ready", "body", ObjectArg(Empty), FALSE)
     /\ UNCHANGED <<data, settings, handlers, nodes, defaults, box>>

\* $.Loading.setDefaults(cfg)
setDefaults(cfg) ==
  /\ defaults' = Extend(defaults, cfg)
  /\ log' = <<>>
  /\ last' = Op("setDefaults", "body", ObjectArg(cfg), FALSE)
  /\ UNCHANGED <<data, settings, overlay, handlers, nodes, box, external, ready>>

\* $(e).off('loading.<ns>'): every handler of that namespace is removed.
Off(e, ns) ==
  /\ data[e]
  /\ Commit([World EXCEPT !.handlers[e][ns] = 0],
            Op("off", e, StringArg(ns, Empty), FALSE))

Next ==
  \/ \E e \in Elems : \E cfg \in Configs(e) : LoadingConfig(e, cfg)
  \/ \E e \in Elems, name \in PublicMethods :
       \E arg \in OptionArgs(e) \cup {Empty} : LoadingMethod(e, name, arg)
  \/ \E e \in Elems : Click(e)
  \/ \E e \in Elems : FadeDone(e)
  \/ \E e \in Elems : Selector(e)

Spec == Init /\ [][Next]_vars

\* Attachment calls on the div with every function name the dispatcher finds.
NextDispatch ==
  \/ \E cfg \in Configs("div") : LoadingConfig("div", cfg)
  \/ \E name \in PublicMethods :
       \E arg \in OptionArgs("div") \cup {Empty} :
         LoadingMethod("div", name, arg)
  \/ \E name \in InternalMethods : LoadingInternal("div", name)
  \/ Click("div")
  \/ FadeDone("div")

SpecDispatch == Init /\ [][NextDispatch]_vars

\* The documented operations, and the page unbinding the div's handlers.
NextUnbind ==
  \/ Next
  \/ \E ns \in {"start", "stop"} : Off("div", ns)

SpecUnbind == Init /\ [][NextUnbind]_vars

\* The documented operations on the div, and the page changing the defaults.
NextDefaults ==
  \/ \E cfg \in Configs("div") : LoadingConfig("div", cfg)
  \/ \E name \in PublicMethods :
       \E arg \in OptionArgs("div") \cup {Empty} :
         LoadingMethod("div", name, arg)
  \/ Click("div")
  \/ FadeDone("div")
  \/ \E cfg \in DefaultConfigs : setDefaults(cfg)

SpecDefaults == Init /\ [][NextDefaults]_vars

\* Attachment, resize and stop calls, with the page's layout changing and the
\* window's resize and the document's ready events.
NextLayout ==
  \/ \E e \in Elems : LoadingConfig(e, Empty)
  \/ \E e \in Elems, name \in {"resize", "stop"} : LoadingMethod(e, name, Empty)
  \/ \E e \in Elems : \E b \in Boxes(e) : Layout(e, b)
  \/ \E e \in Elems : FadeDone(e)
  \/ WindowResize
  \/ DocumentReady

SpecLayout == Init /\ [][NextLayout]_vars

\* The documented operations on the div, and attachment calls with a name
\* that is no function of the Loading object.
NextUnknown ==
  \/ \E cfg \in Configs("div") : LoadingConfig("div", cfg)
  \/ \E name \in PublicMethods :
       \E arg \in OptionArgs("div") \cup {Empty} :
         LoadingMethod("div", name, arg)
  \/ Click("div")
  \/ FadeDone("div")
  \/ \E name \in UnknownNames : LoadingUnknown("div", name)

SpecUnknown == Init /\ [][NextUnknown]_vars

\* ------------------------------------------------------------ properties

\* What the last operation logged.
CallsOf(name, e) ==
  LET Is(x) == x.kind = "call" /\ x.name = name /\ x.on = e
  IN SelectSeq(log, Is)
NotifiesOf(ns, e) ==
  LET Is(x) == x.kind = "notify" /\ x.name = ns /\ x.on = e
  IN SelectSeq(log, Is)
\* The runs of the hook of e's own instance for an event triggered on e.
OwnHookRuns(ns, e) ==
  LET Is(x) == x.kind = "hook" /\ x.name = HookKey(ns) /\ x.on = e /\ x.target = e
  IN SelectSeq(log, Is)
CallNames ==
  LET Is(x) == x.kind = "call"
      calls == SelectSeq(log, Is)
  IN [i \in 1..Len(calls) |-> calls[i].name]

StartCalled(e) == CallsOf("start", e) # <<>>
StopCalled(e) == CallsOf("stop", e) # <<>>

DefaultHooks(e) ==
  /\ data[e]
  /\ settings[e].onStart = FadeInHook
  /\ settings[e].onStop = FadeOutHook
  /\ settings[e].onClick = NoopHook

IsActive(e) == active(World, e)

C2_StartThenActive ==
  \A e \in Elems : (StartCalled(e) /\ DefaultHooks(e)) => IsActive(e)

\* C2 witness: start() was called on an existing, inactive widget with the
\* default hooks, and it is active.
C2_Witness ==
  /\ last.op = "loading" /\ ~last.fresh /\ ~last.wasActive
  /\ StartCalled(last.el) /\ DefaultHooks(last.el) /\ IsActive(last.el)

\* C3 (as stated): after an operation that called stop() on a widget with the
\* default hooks, active() of that widget is false.
C3_StopThenInactive ==
  \A e \in Elems : (StopCalled(e) /\ DefaultHooks(e)) => ~IsActive(e)

\* C4 (as stated): the attachment call that constructs the instance leaves it
\* inactive, with no start notification, when the configuration has start:
\* false, and active otherwise (with the default hooks).
C4_StartOption ==
  (last.op = "loading" /\ last.fresh /\ ~last.string) =>
     IF "start" \in DOMAIN last.config /\ last.config["start"] = FALSE
     THEN ~IsActive(last.el) /\ NotifiesOf("start", last.el) = <<>>
     ELSE DefaultHooks(last.el) => IsActive(last.el)

\* C5: the :loading selector returns true exactly for an element that has an
\* instance whose overlay is visible, and evaluating it changes nothing: it
\* creates no instance.
C5_Selector ==
  [][last'.op = "selector" =>
       /\ last'.result = (data[last'.el] /\ overlay[last'.el].display)
       /\ UNCHANGED <<data, settings, overlay, handlers, nodes, defaults, external>>
    ]_vars

\* C5 witness: the selector matched one element while the other has none, or
\* an inactive, instance.
C5_Witness ==
  /\ last.op = "selector" /\ last.result
  /\ \E e \in Elems : e # last.el /\ ~IsActive(e)

\* C6: each start() (stop()) call of the last operation on a widget fired
\* one start (stop) notification on its element and ran the widget's own
\* onStart (onStop) hook once, both with the widget's Loading object.
C6_OncePerCall ==
  \A e \in Elems, ns \in {"start", "stop"} :
    LET notifies == NotifiesOf(ns, e)
        runs == OwnHookRuns(ns, e)
    IN /\ Len(notifies) = Len(CallsOf(ns, e))
       /\ Len(runs) = Len(CallsOf(ns, e))
       /\ \A i \in 1..Len(notifies) : notifies[i].payload = LoadingObject(e)
       /\ \A i \in 1..Len(runs) : runs[i].payload = LoadingObject(e)

\* C6 witness: stop() was called on the div while the body has an instance
\* too, and the div's onStop hook ran once.
C6_Witness ==
  /\ data["body"] /\ StopCalled("div")
  /\ Len(OwnHookRuns("stop", "div")) = 1

\* C7 (as stated): every click notification and every onClick run carries the
\* Loading object of the element it was triggered on.
C7_ClickPayload ==
  \A i \in 1..Len(log) :
    (log[i].kind \in {"notify", "hook"} /\ log[i].name \in {"click", "onClick"})
      => log[i].payload = LoadingObject(log[i].target)

\* C8 (as stated): a click on the overlay fires one click notification, and
\* issues stop exactly when the instance's stoppable setting is true at the
\* time of the click.
C8_ClickStoppable ==
  last.op = "click" =>
    /\ Len(NotifiesOf("click", last.el)) = 1
    /\ settings[last.el].stoppable <=> StopCalled(last.el)

\* C9 (as stated): with the element's loading.start and loading.stop handlers
\* removed, active() is false after stop() and true after start().
C9_ActiveWithoutHandlers ==
  \A e \in Elems :
    (data[e] /\ handlers[e]["start"] = 0 /\ handlers[e]["stop"] = 0) =>
       /\ StopCalled(e) => ~IsActive(e)
       /\ StartCalled(e) => IsActive(e)

\* The calls the constructor makes.
ConstructorCalls ==
  <<"init", "initOverlay", "resize", "attachMethodsToExternalEvents",
    "attachOptionsHandlers">>

Notifications ==
  LET Is(x) == x.kind = "notify"
  IN SelectSeq(log, Is)

\* C11: an attachment call that runs toggle() fires exactly one notification,
\* on the element: stop when the widget was active at the call, start when it
\* was not.
C11_ToggleOneNotification ==
  (last.op = "loading" /\ last.string /\ last.name = "toggle") =>
    LET wasActive == ~last.fresh /\ last.wasActive
    IN /\ Len(Notifications) = 1
       /\ Notifications[1].on = last.el
       /\ Notifications[1].name = IF wasActive THEN "stop" ELSE "start"

\* C11 witness: toggle() on an active widget fired stop.
C11_Witness ==
  /\ last.op = "loading" /\ last.name = "toggle" /\ last.wasActive
  /\ Len(Notifications) = 1 /\ Notifications[1].name = "stop"

\* Every hook run of the last operation ran the function the owner's settings
\* hold under that key.
HooksFromSettings ==
  \A i \in 1..Len(log) :
    log[i].kind = "hook" => log[i].hook = settings[log[i].on][log[i].name]

\* C12: options(partial) on an existing instance leaves settings equal to the
\* shallow merge (partial's keys take partial's values, the others keep
\* theirs), fires no notification, runs no hook and changes no overlay; and
\* every hook a notification runs is the one in the current settings.
C12_OptionsMerge ==
  /\ []HooksFromSettings
  /\ [][(last'.op = "loading" /\ last'.string /\ last'.name = "options"
           /\ data[last'.el]) =>
          LET e == last'.el
              partial == last'.config
          IN /\ DOMAIN settings'[e] = (DOMAIN settings[e]) \cup (DOMAIN partial)
             /\ \A k \in DOMAIN partial : settings'[e][k] = partial[k]
             /\ \A k \in (DOMAIN settings[e]) \ (DOMAIN partial) :
                  settings'[e][k] = settings[e][k]
             /\ \A i \in 1..Len(log') : log'[i].kind = "call"
             /\ overlay' = overlay
       ]_vars

\* C12 witness: options replaced the hooks of an instance built stoppable,
\* which is still stoppable.
C12_Witness ==
  /\ last.op = "loading" /\ last.name = "options" /\ ~last.fresh
  /\ last.config = UserHooks
  /\ settings[last.el].onStart = UserHook /\ settings[last.el].stoppable

\* C13: the settings of an existing instance change only in an options call on
\* that instance (not in setDefaults, not in a later attachment call with a
\* configuration), and a new instance's settings are the defaults of that
\* moment overridden by the call's configuration.
C13_SettingsFrame ==
  [][\A e \in Elems :
       /\ (data[e] /\ settings'[e] # settings[e]) =>
            /\ last'.op = "loading" /\ last'.el = e
            /\ last'.string /\ last'.name = "options"
       /\ (~data[e] /\ data'[e]) =>
            LET cfg == IF last'.string THEN Empty ELSE last'.config
                built == Extend(Extend(defaults, cfg), [fullPage |-> (e = "body")])
            IN settings'[e] =
                 IF last'.string /\ last'.name = "options"
                 THEN Extend(built, last'.config) ELSE built
    ]_vars

\* C13 witness: an instance built after setDefaults changed the message has
\* the new message, and the stoppable value of its own configuration.
C13_Witness ==
  /\ last.op = "loading" /\ last.fresh /\ ~last.string
  /\ defaults.message # InitialDefaults.message
  /\ settings[last.el].message = defaults.message
  /\ settings[last.el].stoppable # defaults.stoppable

\* C14: with the default hooks, an operation that calls start() on a widget
\* right after one that called start() on it leaves, once the fades have
\* finished, the overlay as the first left it (visible), and leaves the
\* settings and the number of overlay nodes as they were.
C14_StartIdempotent ==
  [][\A e \in Elems :
       (/\ DefaultHooks(e)
        /\ last.op = "loading" /\ StartCalled(e)
        /\ last'.op = "loading"
        /\ \E i \in 1..Len(log') : log'[i] = Call("start", e)) =>
          /\ Settle(overlay'[e]) = Settle(overlay[e])
          /\ Settle(overlay'[e]).display
          /\ settings'[e] = settings[e]
          /\ nodes'[e] = nodes[e] /\ nodes'[e] = 1
    ]_vars

\* C14 witness: start() was called on the body while the fade of an earlier
\* start() was running: two fade-ins are queued.
C14_Witness ==
  /\ last.op = "loading" /\ last.el = "body" /\ StartCalled("body")
  /\ last.wasActive /\ DefaultHooks("body")
  /\ overlay["body"].fx = <<"in", "in">>

\* C15: with the default hooks, after an operation that called start() (or
\* stop()) on a widget, whatever fades were queued or running, the overlay is
\* visible (hidden) once every fade has finished.
C15_LastCallWins ==
  \A e \in Elems :
    DefaultHooks(e) =>
      /\ StartCalled(e) => Settle(overlay[e]).display
      /\ StopCalled(e) => ~Settle(overlay[e]).display

\* C15 witness: stop() was called while the fade-in of a start() was running.
C15_Witness ==
  /\ StopCalled("body") /\ DefaultHooks("body")
  /\ overlay["body"].fx = <<"in", "out">>

ResizedIn(l, e) == \E i \in 1..Len(l) : l[i] = Call("resize", e)

\* C16: resize() runs on every instance at the window's resize and at the
\* document's ready, and in the call that constructs the instance; after it
\* the overlay's top and left are the element's offset and its width and
\* height the element's outer size, or 100% on the body; an operation that
\* only resizes leaves visibility, fades, settings and overlay nodes alone.
C16_Resize ==
  [][/\ last'.op \in {"windowResize", "ready"} =>
          \A e \in Elems : data[e] => ResizedIn(log', e)
     /\ \A e \in Elems :
          /\ (~data[e] /\ data'[e]) => ResizedIn(log', e)
          /\ ResizedIn(log', e) =>
               overlay'[e].css =
                 [top |-> box'[e].top, left |-> box'[e].left,
                  width |-> IF e = "body" THEN FullSize ELSE Px(box'[e].width),
                  height |-> IF e = "body" THEN FullSize ELSE Px(box'[e].height)]
          /\ (/\ data[e] /\ ResizedIn(log', e)
              /\ \/ last'.op \in {"windowResize", "ready"}
                 \/ last'.op = "loading" /\ last'.name = "resize") =>
               /\ overlay'[e].display = overlay[e].display
               /\ overlay'[e].fx = overlay[e].fx
               /\ settings'[e] = settings[e]
               /\ nodes'[e] = nodes[e]
    ]_vars

\* C16 witness: after the div moved, a window resize put its overlay on it,
\* and the body's overlay fills the page.
C16_Witness ==
  /\ last.op = "windowResize" /\ data["div"] /\ data["body"]
  /\ box["div"].top = 5 /\ overlay["div"].css.top = 5
  /\ overlay["div"].css.height = Px(7)
  /\ overlay["body"].css.width = FullSize

\* C17: an attachment call on an element that has an instance, with a string
\* that names no function of the instance, throws, fires no notification and
\* leaves the instance, its settings, its overlay and its handlers unchanged.
C17_UnknownNameFails ==
  [][(last'.op = "loading" /\ last'.string /\ last'.name \in UnknownNames
        /\ data[last'.el]) =>
       /\ last'.result
       /\ log' = <<>>
       /\ UNCHANGED <<data, settings, overlay, handlers, nodes, external>>
    ]_vars

\* C17 witness: the call threw on an element whose widget is active.
C17_Witness ==
  /\ last.op = "loading" /\ last.name \in UnknownNames /\ ~last.fresh
  /\ last.result /\ IsActive(last.el)

\* C18 (as stated): a start(), stop() or overlay click on one element's widget
\* runs only that widget's hooks and changes the visibility of no other
\* widget's overlay.
C18_Isolated ==
  [][last'.op \in {"loading", "click"} =>
       /\ \A i \in 1..Len(log') :
            log'[i].kind = "hook" => log'[i].on = last'.el
       /\ \A e \in Elems \ {last'.el} :
            overlay'[e].display = overlay[e].display
    ]_vars

\* C19 (as stated): with the default hooks, a toggle() right after a toggle()
\* on the same widget leaves the overlay, once the fades have finished, as
\* visible as it was before the first.
C19_ToggleTwice ==
  [][(/\ last.op = "loading" /\ last.name = "toggle"
      /\ last'.op = "loading" /\ last'.name = "toggle" /\ last'.el = last.el
      /\ DefaultHooks(last.el)) =>
       Settle(overlay'[last.el]).display = (~last.fresh /\ last.wasActive)
    ]_vars

====
